---- MODULE Spec2Model ----
(***************************************************************************)
(* Model of package util (junxie6/util): crypto.go and its reworked copy   *)
(* (src/unnamed/part_000).  Both files define the same function names; the *)
(* variable impl records which of the two files the caller is linked with. *)
(* Definitions without a suffix model src/unnamed/part_000, definitions    *)
(* with the suffix _cryptogo model src/crypto.go where the two differ.     *)
(*                                                                         *)
(* Byte strings are sequences over 0..255.  The Go standard library        *)
(* primitives the package calls (sha256, aes/gcm, pem, x509, rsa) are      *)
(* modelled by small deterministic stand-ins with the same interface and   *)
(* the same error cases; the package's own functions are translated        *)
(* statement by statement on top of them.                                  *)
(***************************************************************************)
EXTENDS Integers, Sequences, FiniteSets, TLC

VARIABLES
    impl,     \* "part_000" or "crypto.go": the file whose functions are called
    last,     \* the most recent EncryptAES call: inputs, random draw, result
    kept,     \* an earlier EncryptAES call the caller still remembers
    ctext,    \* the symmetric ciphertext in the caller's hands
    tamper,   \* what happened to ctext since it was sealed
    dres,     \* the most recent DecryptAES call: passphrase and result
    gen,      \* the most recent GenerateKeyPair call: bits and result
    wire,     \* the serialized key bytes in the caller's hands
    wireSrc,  \* how wire was produced (encoder output or crafted container)
    dec       \* the most recent BytesToPrivateKey/BytesToPublicKey call

vars == <<impl, last, kept, ctext, tamper, dres, gen, wire, wireSrc, dec>>

aesVars == <<last, kept, ctext, tamper, dres>>
keyVars == <<gen, wire, wireSrc, dec>>

(***************************************************************************)
(* Bounds of the model.                                                    *)
(***************************************************************************)
MaxPassLen == 1      \* passphrases are byte strings of at most this length
MaxPlainLen == 1     \* plaintexts are byte strings of at most this length
MaxRand == 1         \* the random source fills a buffer with one of 0..MaxRand

(***************************************************************************)
(* Sizes fixed by the primitives the package selects.                      *)
(***************************************************************************)
HashSize == 32       \* sha256.Sum256 digest length
NonceSize == 12      \* gcm.NonceSize() of cipher.NewGCM
TagSize == 16        \* gcm.Overhead() of cipher.NewGCM

RECURSIVE SeqsUpTo(_, _)
SeqsUpTo(S, n) ==
    IF n = 0 THEN {<<>>}
    ELSE LET shorter == SeqsUpTo(S, n - 1)
         IN shorter \cup {Append(s, x) : s \in shorter, x \in S}

\* Passphrases "", "a", "aa", ... and "b"; plaintexts of bytes 200, and <<0>>.
Passphrases == SeqsUpTo({97}, MaxPassLen) \cup {<<98>>}
Plaintexts == SeqsUpTo({200}, MaxPlainLen) \cup {<<0>>}

\* What io.ReadFull(rand.Reader, buf) can leave in a buffer of n bytes: the
\* platform's secure random source always fills the buffer.
RandReads(n) == {[i \in 1..n |-> b] : b \in 0..MaxRand}

(***************************************************************************)
(* Results of a call: Go's (value, error) pair, or a panic that unwinds    *)
(* the caller.  err = "" is a nil error, panic = "" is a normal return.    *)
(***************************************************************************)
Ret(val, err) == [val |-> val, err |-> err, panic |-> ""]
Panic(msg) == [val |-> <<>>, err |-> "", panic |-> msg]

ErrAuth == "cipher: message authentication failed"
ErrShort == "data size is less than nonceSize"
ErrKeySize == "crypto/aes: invalid key size"
ErrRead == "unexpected EOF"
PanicSlice == "runtime error: slice bounds out of range"

(***************************************************************************)
(* sha256.Sum256: a 32-byte digest.  The stand-in writes the length and    *)
(* the input bytes into the leading positions, so that distinct inputs of  *)
(* the model have distinct digests (collision resistance).                 *)
(***************************************************************************)
Sum256(data) ==
    [i \in 1..HashSize |->
        IF i = 1 THEN (Len(data) * 17 + 99) % 256
        ELSE IF i - 1 <= Len(data) THEN (data[i - 1] * 3 + i) % 256
        ELSE (i * 7) % 256]

CreateHash(data) == Sum256(data)

(***************************************************************************)
(* aes.NewCipher and cipher.NewGCM.                                        *)
(***************************************************************************)
NewCipher(key) ==
    IF Len(key) \in {16, 24, 32} THEN [key |-> key, err |-> ""]
    ELSE [key |-> <<>>, err |-> ErrKeySize]

NewGCM(block) == [key |-> block.key, nonceSize |-> NonceSize, err |-> ""]

\* Counter-mode key stream byte i under (key, nonce).
KeyStream(key, nonce, i) ==
    (key[((i - 1) % Len(key)) + 1] + 5 * nonce[((i - 1) % NonceSize) + 1] + i) % 256

GcmCrypt(key, nonce, text, sign) ==
    [i \in 1..Len(text) |-> (text[i] + sign * KeyStream(key, nonce, i)) % 256]

\* The 16-byte integrity tag over (key, nonce, sealed bytes).
GcmTag(key, nonce, body) ==
    [j \in 1..TagSize |->
        (key[j] + 3 * nonce[((j - 1) % NonceSize) + 1]
         + 7 * (IF j <= Len(body) THEN body[j] ELSE 0)
         + 11 * Len(body) + j) % 256]

\* gcm.Seal(dst, nonce, plaintext, nil): appends the sealed payload to dst.
GcmSeal(gcm, dst, nonce, plaintext) ==
    LET body == GcmCrypt(gcm.key, nonce, plaintext, 1)
    IN dst \o body \o GcmTag(gcm.key, nonce, body)

\* gcm.Open(nil, nonce, ciphertext, nil).
GcmOpen(gcm, nonce, ciphertext) ==
    IF Len(ciphertext) < TagSize THEN Ret(<<>>, ErrAuth)
    ELSE LET n == Len(ciphertext) - TagSize
             body == SubSeq(ciphertext, 1, n)
             tag == SubSeq(ciphertext, n + 1, Len(ciphertext))
         IN IF tag = GcmTag(gcm.key, nonce, body)
            THEN Ret(GcmCrypt(gcm.key, nonce, body, 255), "")
            ELSE Ret(<<>>, ErrAuth)

(***************************************************************************)
(* EncryptAES.  rnd is what the random source delivers into the nonce      *)
(* buffer of this call.                                                    *)
(***************************************************************************)
EncryptAES_ZeroNonce(data, passphrase, rnd) ==
    LET gcm == NewGCM(NewCipher(CreateHash(passphrase)))
        nonce == [i \in 1..NonceSize |-> 0]
    IN Ret(GcmSeal(gcm, nonce, nonce, data), "")

EncryptAES_NoPrefix(data, passphrase, rnd) ==
    LET gcm == NewGCM(NewCipher(CreateHash(passphrase)))
    IN Ret(GcmSeal(gcm, <<>>, rnd, data), "")

EncryptAES(data, passphrase, rnd) ==
    LET block == NewCipher(CreateHash(passphrase))
    IN IF block.err # "" THEN Ret(<<>>, block.err)
       ELSE LET gcm == NewGCM(block)
            IN IF gcm.err # "" THEN Ret(<<>>, gcm.err)
               ELSE LET nonce == rnd                   \* io.ReadFull(rand.Reader, nonce)
                    IN IF Len(nonce) # gcm.nonceSize THEN Ret(<<>>, ErrRead)
                       ELSE Ret(GcmSeal(gcm, nonce, nonce, data), "")

EncryptAES_cryptogo(data, passphrase, rnd) ==
    LET block == NewCipher(CreateHash(passphrase))
        gcm == NewGCM(block)
    IN IF gcm.err # "" THEN Panic(gcm.err)
       ELSE LET nonce == rnd                           \* io.ReadFull(rand.Reader, nonce)
            IN IF Len(nonce) # gcm.nonceSize THEN Panic(ErrRead)
               ELSE Ret(GcmSeal(gcm, nonce, nonce, data), "")

(***************************************************************************)
(* DecryptAES.                                                             *)
(***************************************************************************)
DecryptAES(data, passphrase) ==
    LET key == CreateHash(passphrase)
        block == NewCipher(key)
    IN IF block.err # "" THEN Ret(<<>>, block.err)
       ELSE LET gcm == NewGCM(block)
            IN IF gcm.err # "" THEN Ret(<<>>, gcm.err)
               ELSE LET nonceSize == gcm.nonceSize
                    IN IF Len(data) < nonceSize THEN Ret(<<>>, ErrShort)
                       ELSE LET nonce == SubSeq(data, 1, nonceSize)
                                ciphertext == SubSeq(data, nonceSize + 1, Len(data))
                                opened == GcmOpen(gcm, nonce, ciphertext)
                            IN IF opened.err # "" THEN Ret(<<>>, opened.err)
                               ELSE Ret(opened.val, "")

DecryptAES_cryptogo(data, passphrase) ==
    LET key == CreateHash(passphrase)
        block == NewCipher(key)
    IN IF block.err # "" THEN Panic(block.err)
       ELSE LET gcm == NewGCM(block)
            IN IF gcm.err # "" THEN Panic(gcm.err)
               ELSE LET nonceSize == gcm.nonceSize
                    IN \* data[:nonceSize], data[nonceSize:] with no length check
                       IF nonceSize > Len(data) THEN Panic(PanicSlice)
                       ELSE LET nonce == SubSeq(data, 1, nonceSize)
                                ciphertext == SubSeq(data, nonceSize + 1, Len(data))
                                opened == GcmOpen(gcm, nonce, ciphertext)
                            IN IF opened.err # "" THEN Panic(opened.err)
                               ELSE Ret(opened.val, "")

(***************************************************************************)
(* RSA keys.  A *rsa.PrivateKey is the record of its fields; the nil       *)
(* pointer is the all-zero record.  KeyPool is what key generation can     *)
(* produce: the model's stand-ins for moduli of the requested size.        *)
(***************************************************************************)
NilPriv == [N |-> 0, E |-> 0, D |-> 0, P |-> 0, Q |-> 0]
NilPub == [N |-> 0, E |-> 0]

KeyPool ==
    { [N |-> 33, E |-> 3, D |-> 7, P |-> 3, Q |-> 11],
      [N |-> 55, E |-> 3, D |-> 27, P |-> 5, Q |-> 11] }

\* &privKey.PublicKey
PublicOf(priv) == [N |-> priv.N, E |-> priv.E]

BitsChoices == {0, 512, 1024, 2048, 4096}

ErrKeyGen == "crypto/rsa: key generation failed"
ErrParsePKCS1 == "x509: failed to parse private key"
ErrParsePKCS8 == "x509: failed to parse PKCS#8 private key"
ErrParsePKIX == "x509: failed to parse public key"
ErrPassword == "x509: decryption password incorrect"
ErrEncMode == "x509: unknown encryption mode"
ErrAssertPriv == "Failed to type assertion to *rsa.PrivateKey"
ErrAssertPriv_cryptogo == "Failed to type assert to *rsa.PrivateKey"
ErrAssertPub == "Failed to type assert to *rsa.PublicKey"
ErrBlockType == "unsupported block.Type"
PanicNil == "runtime error: invalid memory address or nil pointer dereference"

(***************************************************************************)
(* rsa.GenerateKey(rand.Reader, bits): the library refuses sizes below its *)
(* own floor of 1024 bits and otherwise returns a key drawn from the       *)
(* random source (rnd).                                                    *)
(***************************************************************************)
RsaGenerateKey(rnd, bits) ==
    IF bits < 1024 THEN [key |-> NilPriv, err |-> ErrKeyGen]
    ELSE [key |-> rnd, err |-> ""]

GenerateKeyPair(bits, rnd) ==
    LET r == RsaGenerateKey(rnd, bits)
    IN IF r.err # "" THEN [priv |-> NilPriv, pub |-> NilPub, err |-> r.err]
       ELSE [priv |-> r.key, pub |-> PublicOf(r.key), err |-> r.err]

(***************************************************************************)
(* x509 encodings.  A DER value is a byte string that starts with the      *)
(* SEQUENCE tag 48; PKCS#8 and PKIX wrap the key in an algorithm           *)
(* identifier (tag 6, then 1 for rsaEncryption or 2 for id-ecPublicKey).   *)
(***************************************************************************)
MarshalPKCS1PrivateKey(priv) == <<48, 0, priv.N, priv.E, priv.D, priv.P, priv.Q>>

ParsePKCS1PrivateKey(der) ==
    IF /\ Len(der) = 7
       /\ der[1] = 48
       /\ der[2] = 0
       /\ der[3] > 0
       /\ der[3] = der[6] * der[7]
    THEN [key |-> [N |-> der[3], E |-> der[4], D |-> der[5], P |-> der[6], Q |-> der[7]],
          err |-> ""]
    ELSE [key |-> NilPriv, err |-> ErrParsePKCS1]

\* The value behind the interface{} a generic parser returns.
Ifc(kind, priv, pub, err) == [kind |-> kind, priv |-> priv, pub |-> pub, err |-> err]

ParsePKCS8PrivateKey(der) ==
    IF ~(Len(der) >= 4 /\ der[1] = 48 /\ der[2] = 0 /\ der[3] = 6)
    THEN Ifc("nil", NilPriv, NilPub, ErrParsePKCS8)
    ELSE IF der[4] = 1
    THEN LET inner == ParsePKCS1PrivateKey(SubSeq(der, 5, Len(der)))
         IN IF inner.err # "" THEN Ifc("nil", NilPriv, NilPub, ErrParsePKCS8)
            ELSE Ifc("rsa", inner.key, NilPub, "")
    ELSE IF der[4] = 2 /\ Len(der) = 5
    THEN Ifc("ecdsa", NilPriv, NilPub, "")
    ELSE Ifc("nil", NilPriv, NilPub, ErrParsePKCS8)

MarshalPKIXPublicKey(pub) == [val |-> <<48, 6, 1, 3, pub.N, pub.E>>, err |-> ""]

ParsePKIXPublicKey(der) ==
    IF ~(Len(der) = 6 /\ der[1] = 48 /\ der[2] = 6 /\ der[4] = 3)
    THEN Ifc("nil", NilPriv, NilPub, ErrParsePKIX)
    ELSE IF der[3] = 1 /\ der[5] > 0
    THEN Ifc("rsa", NilPriv, [N |-> der[5], E |-> der[6]], "")
    ELSE IF der[3] = 2
    THEN Ifc("ecdsa", NilPriv, NilPub, "")
    ELSE Ifc("nil", NilPriv, NilPub, ErrParsePKIX)

(***************************************************************************)
(* PEM.  The text of a block is                                            *)
(*   45, label code, [58, cipher id,] 10, base64 body, 45, label code      *)
(* (45 '-' for the BEGIN/END lines, 58 ':' for a DEK-Info header line,     *)
(* 10 for the line break before the body).  The body is encoded two        *)
(* symbols per byte over a 16-symbol alphabet starting at 65 ('A').        *)
(***************************************************************************)
Labels == <<"RSA PRIVATE KEY", "PRIVATE KEY", "RSA PUBLIC KEY", "PUBLIC KEY", "CERTIFICATE">>

LabelCode(type) == CHOOSE c \in 1..Len(Labels) : Labels[c] = type

B64Encode(bytes) ==
    [i \in 1..(2 * Len(bytes)) |->
        IF i % 2 = 1 THEN 65 + (bytes[(i + 1) \div 2] \div 16)
        ELSE 65 + (bytes[i \div 2] % 16)]

B64Valid(text) ==
    /\ Len(text) % 2 = 0
    /\ \A i \in 1..Len(text) : text[i] \in 65..80

B64Decode(text) ==
    [i \in 1..(Len(text) \div 2) |-> (text[2 * i - 1] - 65) * 16 + (text[2 * i] - 65)]

\* A *pem.Block; Headers is <<>> or <<cipher id>> (the DEK-Info header).
NilBlock == [nil |-> TRUE, Type |-> "", Headers |-> <<>>, Bytes |-> <<>>]
Block(type, headers, bytes) ==
    [nil |-> FALSE, Type |-> type, Headers |-> headers, Bytes |-> bytes]

\* pem.EncodeToMemory
PemEncode(block) ==
    <<45, LabelCode(block.Type)>>
    \o (IF block.Headers = <<>> THEN <<>> ELSE <<58, block.Headers[1]>>)
    \o <<10>> \o B64Encode(block.Bytes) \o <<45, LabelCode(block.Type)>>

\* pem.Decode: the block, or nil when data holds no well-formed block.
PemDecode(data) ==
    IF ~(Len(data) >= 5 /\ data[1] = 45 /\ data[2] \in 1..Len(Labels))
    THEN NilBlock
    ELSE LET hdr == data[3] = 58
             start == IF hdr THEN 5 ELSE 3
         IN IF ~(/\ Len(data) >= start + 2
                 /\ data[start] = 10
                 /\ data[Len(data) - 1] = 45
                 /\ data[Len(data)] = data[2])
            THEN NilBlock
            ELSE LET text == SubSeq(data, start + 1, Len(data) - 2)
                 IN IF ~B64Valid(text) THEN NilBlock
                    ELSE Block(Labels[data[2]],
                               IF hdr THEN <<data[4]>> ELSE <<>>,
                               B64Decode(text))

\* x509.IsEncryptedPEMBlock: the block carries a DEK-Info header.
IsEncryptedPEMBlock(block) == block.Headers # <<>>

\* The key the legacy PEM encryption derives from a password.
PemKey(password) ==
    (40 + (IF Len(password) = 0 THEN 0 ELSE password[1])) % 256

\* x509.EncryptPEMBlock: pads (one byte of value 1) and enciphers.
EncryptPEMBlock(type, bytes, password) ==
    LET padded == Append(bytes, 1)
    IN Block(type, <<1>>, [i \in 1..Len(padded) |-> (padded[i] + PemKey(password)) % 256])

\* x509.DecryptPEMBlock: deciphers and checks the padding.
DecryptPEMBlock(block, password) ==
    IF block.Headers[1] # 1 THEN [bytes |-> <<>>, err |-> ErrEncMode]
    ELSE LET d == [i \in 1..Len(block.Bytes) |->
                      (block.Bytes[i] + 256 - PemKey(password)) % 256]
             n == Len(d)
         IN IF n = 0 THEN [bytes |-> <<>>, err |-> ErrPassword]
            ELSE LET v == d[n]
                 IN IF /\ v \in 1..8
                       /\ v <= n
                       /\ \A i \in (n - v + 1)..n : d[i] = v
                    THEN [bytes |-> SubSeq(d, 1, n - v), err |-> ""]
                    ELSE [bytes |-> <<>>, err |-> ErrPassword]

(***************************************************************************)
(* PrivateKeyToBytes, PublicKeyToBytes (the same in both files).           *)
(***************************************************************************)
PrivateKeyToBytes_GenericLabel(priv) ==
    PemEncode(Block("PRIVATE KEY", <<>>, MarshalPKCS1PrivateKey(priv)))

PrivateKeyToBytes(priv) ==
    PemEncode(Block("RSA PRIVATE KEY", <<>>, MarshalPKCS1PrivateKey(priv)))

PublicKeyToBytes(pub) ==
    LET pubASN1 == MarshalPKIXPublicKey(pub)
    IN IF pubASN1.err # "" THEN [val |-> <<>>, err |-> pubASN1.err]
       ELSE [val |-> PemEncode(Block("RSA PUBLIC KEY", <<>>, pubASN1.val)), err |-> ""]

(***************************************************************************)
(* BytesToPrivateKey, BytesToPublicKey.  parsers lists the x509 parsers    *)
(* the call ran, in order.                                                 *)
(***************************************************************************)
KeyRet(priv, pub, err, parsers) ==
    [priv |-> priv, pub |-> pub, err |-> err, panic |-> "", parsers |-> parsers]
KeyPanic(msg) ==
    [priv |-> NilPriv, pub |-> NilPub, err |-> "", panic |-> msg, parsers |-> <<>>]

\* The bytes handed to the parser: block.Bytes, or the deciphered bytes.
Decrypted(block) ==
    IF IsEncryptedPEMBlock(block) THEN DecryptPEMBlock(block, <<>>)
    ELSE [bytes |-> block.Bytes, err |-> ""]

\* The switch on block.Type of src/unnamed/part_000, on the bytes b.
PrivateKeyOfType(type, b) ==
    IF type = "RSA PRIVATE KEY"
    THEN LET r == ParsePKCS1PrivateKey(b)
         IN IF r.err # "" THEN KeyRet(NilPriv, NilPub, r.err, <<"PKCS1">>)
            ELSE KeyRet(r.key, NilPub, "", <<"PKCS1">>)
    ELSE IF type = "PRIVATE KEY"
    THEN LET ifc == ParsePKCS8PrivateKey(b)
         IN IF ifc.err # "" THEN KeyRet(NilPriv, NilPub, ifc.err, <<"PKCS8">>)
            ELSE IF ifc.kind # "rsa"
            THEN KeyRet(NilPriv, NilPub, ErrAssertPriv, <<"PKCS8">>)
            ELSE KeyRet(ifc.priv, NilPub, "", <<"PKCS8">>)
    ELSE KeyRet(NilPriv, NilPub, ErrBlockType, <<>>)

\* A decoder that falls back to the other parser when the first one fails.
BytesToPrivateKey_TryBoth(data) ==
    LET block == PemDecode(data)
    IN IF block.nil THEN KeyPanic(PanicNil)
       ELSE LET d == Decrypted(block)
                first == PrivateKeyOfType(block.Type, d.bytes)
                other == PrivateKeyOfType(IF block.Type = "RSA PRIVATE KEY"
                                          THEN "PRIVATE KEY" ELSE "RSA PRIVATE KEY",
                                          d.bytes)
            IN IF d.err # "" THEN KeyRet(NilPriv, NilPub, d.err, <<>>)
               ELSE IF first.err = "" \/ first.parsers = <<>> THEN first
               ELSE [other EXCEPT !.parsers = first.parsers \o other.parsers]

\* A decoder that dispatches on the label without looking for DEK-Info.
BytesToPrivateKey_NoEncCheck(data) ==
    LET block == PemDecode(data)
    IN IF block.nil THEN KeyPanic(PanicNil)
       ELSE PrivateKeyOfType(block.Type, block.Bytes)

BytesToPrivateKey(data) ==
    LET block == PemDecode(data)
    IN IF block.nil THEN KeyPanic(PanicNil)            \* b := block.Bytes
       ELSE LET d == Decrypted(block)
            IN IF d.err # "" THEN KeyRet(NilPriv, NilPub, d.err, <<>>)
               ELSE PrivateKeyOfType(block.Type, d.bytes)

\* src/crypto.go: named results (privKey, err); every failure returns privKey
\* as it stands at that point.
BytesToPrivateKey_cryptogo(data) ==
    LET block == PemDecode(data)
    IN IF block.nil THEN KeyPanic(PanicNil)            \* b := block.Bytes
       ELSE LET d == Decrypted(block)
                b == d.bytes
            IN IF d.err # "" THEN KeyRet(NilPriv, NilPub, d.err, <<>>)
               ELSE IF block.Type = "RSA PRIVATE KEY"
               THEN LET r == ParsePKCS1PrivateKey(b)
                    IN KeyRet(r.key, NilPub, r.err, <<"PKCS1">>)
               ELSE IF block.Type = "PRIVATE KEY"
               THEN LET ifc == ParsePKCS8PrivateKey(b)
                    IN IF ifc.err # "" THEN KeyRet(NilPriv, NilPub, ifc.err, <<"PKCS8">>)
                       ELSE IF ifc.kind # "rsa"
                       THEN KeyRet(NilPriv, NilPub, ErrAssertPriv_cryptogo, <<"PKCS8">>)
                       ELSE KeyRet(ifc.priv, NilPub, "", <<"PKCS8">>)
               ELSE KeyRet(NilPriv, NilPub, ErrBlockType, <<>>)

\* The same statements in both files; block.Type is never read.
BytesToPublicKey(data) ==
    LET block == PemDecode(data)
    IN IF block.nil THEN KeyPanic(PanicNil)            \* b := block.Bytes
       ELSE LET d == Decrypted(block)
            IN IF d.err # "" THEN KeyRet(NilPriv, NilPub, d.err, <<>>)
               ELSE LET ifc == ParsePKIXPublicKey(d.bytes)
                    IN IF ifc.err # "" THEN KeyRet(NilPriv, NilPub, ifc.err, <<"PKIX">>)
                       ELSE IF ifc.kind # "rsa"
                       THEN KeyRet(NilPriv, NilPub, ErrAssertPub, <<"PKIX">>)
                       ELSE KeyRet(NilPriv, ifc.pub, "", <<"PKIX">>)

(***************************************************************************)
(* The containers a caller can be handed: any label, in the clear or       *)
(* password-encrypted, around any body.                                    *)
(***************************************************************************)
BodyKinds == {"pkcs1", "pkcs8rsa", "pkcs8ec", "pkix", "pkixec", "garbage", "empty"}
EncKinds == {"none", "emptypw", "pw", "badmode"}

BodyBytes(kind, k) ==
    CASE kind = "pkcs1" -> MarshalPKCS1PrivateKey(k)
      [] kind = "pkcs8rsa" -> <<48, 0, 6, 1>> \o MarshalPKCS1PrivateKey(k)
      [] kind = "pkcs8ec" -> <<48, 0, 6, 2, 77>>
      [] kind = "pkix" -> MarshalPKIXPublicKey(PublicOf(k)).val
      [] kind = "pkixec" -> <<48, 6, 2, 3, 4, 5>>
      [] kind = "garbage" -> <<9, 1>>
      [] kind = "empty" -> <<>>

Container(label, enc, kind, k) ==
    LET body == BodyBytes(kind, k)
    IN CASE enc = "none" -> PemEncode(Block(label, <<>>, body))
         [] enc = "emptypw" -> PemEncode(EncryptPEMBlock(label, body, <<>>))
         [] enc = "pw" -> PemEncode(EncryptPEMBlock(label, body, <<1>>))
         [] enc = "badmode" -> PemEncode(Block(label, <<2>>, body))

\* Byte strings that hold no PEM block at all.
RawInputs == {<<>>, <<7, 7>>, <<45, 1, 10, 66, 45, 1>>, <<45, 1, 10, 65, 65, 45, 2>>}

Src(how, label, enc, kind, k) ==
    [how |-> how, label |-> label, enc |-> enc, body |-> kind, key |-> k]

NoSrc == Src("none", "", "none", "raw", NilPriv)
NoGen == [called |-> FALSE, bits |-> 0, priv |-> NilPriv, pub |-> NilPub, err |-> ""]
NoDec == [op |-> "none", priv |-> NilPriv, pub |-> NilPub, err |-> "", panic |-> "",
          parsers |-> <<>>]
NoEnc == [called |-> FALSE, plain |-> <<>>, pass |-> <<>>, rnd |-> <<>>,
          val |-> <<>>, err |-> "", panic |-> ""]
NoDres == [called |-> FALSE, pass |-> <<>>, val |-> <<>>, err |-> "", panic |-> ""]

Init ==
    /\ impl \in {"part_000", "crypto.go"}
    /\ last = NoEnc
    /\ kept = NoEnc
    /\ ctext = <<>>
    /\ tamper = "none"
    /\ dres = NoDres
    /\ gen = NoGen
    /\ wire = <<>>
    /\ wireSrc = NoSrc
    /\ dec = NoDec

(***************************************************************************)
(* Key codec: the caller's steps.                                          *)
(***************************************************************************)
CallGenerateKeyPair ==
    \E bits \in BitsChoices, rnd \in KeyPool :
        LET r == GenerateKeyPair(bits, rnd)
        IN /\ gen' = [called |-> TRUE, bits |-> bits, priv |-> r.priv, pub |-> r.pub,
                      err |-> r.err]
           /\ UNCHANGED <<impl, wire, wireSrc, dec>>
           /\ UNCHANGED aesVars

CallPrivateKeyToBytes ==
    /\ gen.called
    /\ gen.err = ""
    /\ wire' = PrivateKeyToBytes(gen.priv)
    /\ wireSrc' = Src("PrivateKeyToBytes", "RSA PRIVATE KEY", "none", "pkcs1", gen.priv)
    /\ dec' = NoDec
    /\ UNCHANGED <<impl, gen>>
    /\ UNCHANGED aesVars

CallPublicKeyToBytes ==
    /\ gen.called
    /\ gen.err = ""
    /\ LET r == PublicKeyToBytes(gen.pub)
       IN /\ r.err = ""
          /\ wire' = r.val
    /\ wireSrc' = Src("PublicKeyToBytes", "RSA PUBLIC KEY", "none", "pkix", gen.priv)
    /\ dec' = NoDec
    /\ UNCHANGED <<impl, gen>>
    /\ UNCHANGED aesVars

\* The caller is handed a container from elsewhere (once per session).
ReceiveContainer ==
    /\ wireSrc.how = "none"
    /\ \E label \in {Labels[c] : c \in 1..Len(Labels)}, enc \in EncKinds,
       kind \in BodyKinds, k \in KeyPool :
        /\ wire' = Container(label, enc, kind, k)
        /\ wireSrc' = Src("container", label, enc, kind,
                          IF kind \in {"pkcs1", "pkcs8rsa", "pkix"} THEN k ELSE NilPriv)
    /\ dec' = NoDec
    /\ UNCHANGED <<impl, gen>>
    /\ UNCHANGED aesVars

\* The caller is handed bytes that are no PEM text.
ReceiveRaw ==
    /\ wireSrc.how = "none"
    /\ \E data \in RawInputs : wire' = data
    /\ wireSrc' = Src("raw", "", "none", "raw", NilPriv)
    /\ dec' = NoDec
    /\ UNCHANGED <<impl, gen>>
    /\ UNCHANGED aesVars

DecOf(op, r) ==
    [op |-> op, priv |-> r.priv, pub |-> r.pub, err |-> r.err, panic |-> r.panic,
     parsers |-> r.parsers]

CallBytesToPrivateKey ==
    /\ wireSrc.how # "none"
    /\ dec' = DecOf("BytesToPrivateKey",
                    IF impl = "part_000" THEN BytesToPrivateKey(wire)
                    ELSE BytesToPrivateKey_cryptogo(wire))
    /\ UNCHANGED <<impl, gen, wire, wireSrc>>
    /\ UNCHANGED aesVars

CallBytesToPublicKey ==
    /\ wireSrc.how # "none"
    /\ dec' = DecOf("BytesToPublicKey", BytesToPublicKey(wire))
    /\ UNCHANGED <<impl, gen, wire, wireSrc>>
    /\ UNCHANGED aesVars

NextKey ==
    \/ CallGenerateKeyPair
    \/ CallPrivateKeyToBytes
    \/ CallPublicKeyToBytes
    \/ ReceiveContainer
    \/ ReceiveRaw
    \/ CallBytesToPrivateKey
    \/ CallBytesToPublicKey

SpecKey == Init /\ [][NextKey]_vars

(***************************************************************************)
(* Symmetric cipher: the caller's steps.                                   *)
(***************************************************************************)
EncOf(data, pass, rnd, r) ==
    [called |-> TRUE, plain |-> data, pass |-> pass, rnd |-> rnd,
     val |-> r.val, err |-> r.err, panic |-> r.panic]

\* The caller encrypts the next message once the previous one is filed away.
CallEncryptAES ==
    /\ ~last.called
    /\ \E data \in Plaintexts, pass \in Passphrases, rnd \in RandReads(NonceSize) :
           LET r == IF impl = "part_000" THEN EncryptAES(data, pass, rnd)
                    ELSE EncryptAES_cryptogo(data, pass, rnd)
           IN /\ last' = EncOf(data, pass, rnd, r)
              /\ ctext' = r.val
    /\ tamper' = "none"
    /\ dres' = NoDres
    /\ UNCHANGED <<impl, kept>>
    /\ UNCHANGED keyVars

\* The caller files the latest ciphertext away before encrypting again.
Remember ==
    /\ last.called
    /\ kept' = last
    /\ last' = NoEnc
    /\ UNCHANGED <<impl, ctext, tamper, dres>>
    /\ UNCHANGED keyVars

FlipBitOf(b, k) ==
    IF (b \div (2 ^ k)) % 2 = 0 THEN b + 2 ^ k ELSE b - 2 ^ k

\* One bit of the ciphertext is flipped in transit.
FlipBit ==
    /\ tamper = "none"
    /\ \E i \in 1..Len(ctext), k \in {0, 7} :
           ctext' = [ctext EXCEPT ![i] = FlipBitOf(ctext[i], k)]
    /\ tamper' = "flip"
    /\ dres' = NoDres
    /\ UNCHANGED <<impl, last, kept>>
    /\ UNCHANGED keyVars

\* The ciphertext is cut short in transit.
Truncate ==
    /\ tamper = "none"
    /\ \E n \in 0..(Len(ctext) - 1) : ctext' = SubSeq(ctext, 1, n)
    /\ tamper' = "cut"
    /\ dres' = NoDres
    /\ UNCHANGED <<impl, last, kept>>
    /\ UNCHANGED keyVars

CallDecryptAES ==
    \E pass \in Passphrases :
        LET r == IF impl = "part_000" THEN DecryptAES(ctext, pass)
                 ELSE DecryptAES_cryptogo(ctext, pass)
        IN /\ dres' = [called |-> TRUE, pass |-> pass, val |-> r.val, err |-> r.err,
                       panic |-> r.panic]
           /\ UNCHANGED <<impl, last, kept, ctext, tamper>>
           /\ UNCHANGED keyVars

NextAES ==
    \/ CallEncryptAES
    \/ FlipBit
    \/ Truncate
    \/ CallDecryptAES

SpecAES == Init /\ [][NextAES]_vars

NextNonce ==
    \/ CallEncryptAES
    \/ Remember

SpecNonce == Init /\ [][NextNonce]_vars

(***************************************************************************)
(* The failure categories of the specification, as the errors the code     *)
(* returns for them.                                                       *)
(***************************************************************************)
MalformedKey == {ErrParsePKCS1, ErrParsePKCS8, ErrParsePKIX}
UnsupportedKeyType == {ErrAssertPriv, ErrAssertPriv_cryptogo}
UnknownContainerType == {ErrBlockType}
EncryptedContainerUnsupported == {ErrPassword, ErrEncMode}
TypeMismatch == {ErrAssertPub}
AuthenticationFailed == {ErrAuth}
InputTooShort == {ErrShort}

TypedFailures ==
    MalformedKey \cup UnsupportedKeyType \cup UnknownContainerType
    \cup EncryptedContainerUnsupported \cup TypeMismatch

(***************************************************************************)
(* C1.  BytesToPrivateKey and BytesToPublicKey complete on every byte      *)
(* sequence, the empty one and those without a PEM envelope included:      *)
(* they return a key or a typed failure (MalformedKey when the bytes hold  *)
(* no envelope) and never panic.                                           *)
(***************************************************************************)
C1_DecodeNeverPanics ==
    dec.op # "none" =>
        /\ dec.panic = ""
        /\ dec.err = "" \/ dec.err \in TypedFailures
        /\ wireSrc.how = "raw" => dec.err \in MalformedKey

\* The call got as far as the switch on block.Type.
ReachedDispatch ==
    /\ dec.op = "BytesToPrivateKey"
    /\ wireSrc.how # "raw"
    /\ Decrypted(PemDecode(wire)).err = ""

\* The body reached the parser as it was written into the container.
BodyIntact == wireSrc.enc \in {"none", "emptypw"}

(***************************************************************************)
(* C6.  BytesToPrivateKey chooses its parser from the envelope label       *)
(* alone: RSA PRIVATE KEY runs only the PKCS#1 parser, PRIVATE KEY runs    *)
(* only the PKCS#8 parser and fails with UnsupportedKeyType when the       *)
(* unwrapped key is not RSA, every other label fails with                  *)
(* UnknownContainerType without parsing; no second parser is tried and     *)
(* every failure returns no key.                                           *)
(***************************************************************************)
C6_LabelSelectsParser ==
    ReachedDispatch =>
        /\ dec.panic = ""
        /\ dec.err # "" => dec.priv = NilPriv
        /\ wireSrc.label = "RSA PRIVATE KEY" =>
              /\ dec.parsers = <<"PKCS1">>
              /\ IF BodyIntact /\ wireSrc.body = "pkcs1"
                 THEN dec.err = "" /\ dec.priv = wireSrc.key
                 ELSE dec.err \in MalformedKey
        /\ wireSrc.label = "PRIVATE KEY" =>
              /\ dec.parsers = <<"PKCS8">>
              /\ IF BodyIntact /\ wireSrc.body = "pkcs8rsa"
                 THEN dec.err = "" /\ dec.priv = wireSrc.key
                 ELSE IF BodyIntact /\ wireSrc.body = "pkcs8ec"
                 THEN dec.err \in UnsupportedKeyType
                 ELSE dec.err \in MalformedKey
        /\ wireSrc.label \notin {"RSA PRIVATE KEY", "PRIVATE KEY"} =>
              /\ dec.parsers = <<>>
              /\ dec.err \in UnknownContainerType

C6_Witness ==
    /\ ReachedDispatch
    /\ wireSrc.label = "PRIVATE KEY"
    /\ wireSrc.body = "pkcs8ec"
    /\ dec.err \in UnsupportedKeyType
    /\ dec.parsers = <<"PKCS8">>

(***************************************************************************)
(* C7.  BytesToPublicKey rejects a container whose label is not            *)
(* RSA PUBLIC KEY with UnknownContainerType even when the body is a        *)
(* well-formed generic public-key encoding, and rejects a body that        *)
(* decodes to a non-RSA public key with TypeMismatch.                      *)
(***************************************************************************)
C7_PublicLabelChecked ==
    (/\ dec.op = "BytesToPublicKey"
     /\ wireSrc.how = "container"
     /\ wireSrc.enc = "none") =>
        /\ (wireSrc.label # "RSA PUBLIC KEY" /\ wireSrc.body = "pkix") =>
              /\ dec.err \in UnknownContainerType
              /\ dec.pub = NilPub
        /\ (wireSrc.label = "RSA PUBLIC KEY" /\ wireSrc.body = "pkixec") =>
              /\ dec.err \in TypeMismatch
              /\ dec.pub = NilPub

(***************************************************************************)
(* C8.  GenerateKeyPair refuses every size below 2048 bits with an error   *)
(* and returns neither key; on success the public key returned is the      *)
(* public half of the private key returned.                                *)
(***************************************************************************)
C8_MinimumBitsEnforced ==
    gen.called =>
        /\ gen.bits < 2048 =>
              /\ gen.err # ""
              /\ gen.priv = NilPriv
              /\ gen.pub = NilPub
        /\ gen.err = "" => gen.pub = PublicOf(gen.priv)

\* BytesToPrivateKey was called on a container with a DEK-Info header.
EncryptedGiven ==
    /\ dec.op = "BytesToPrivateKey"
    /\ wireSrc.how = "container"
    /\ wireSrc.enc # "none"

C10_KeyRoundTrip ==
    /\ (dec.op = "BytesToPrivateKey" /\ wireSrc.how = "PrivateKeyToBytes") =>
          /\ dec.panic = ""
          /\ dec.err = ""
          /\ dec.priv = wireSrc.key
    /\ (dec.op = "BytesToPublicKey" /\ wireSrc.how = "PublicKeyToBytes") =>
          /\ dec.panic = ""
          /\ dec.err = ""
          /\ dec.pub = PublicOf(wireSrc.key)

C10_Witness ==
    /\ dec.op = "BytesToPrivateKey"
    /\ wireSrc.how = "PrivateKeyToBytes"
    /\ dec.priv \in KeyPool
    /\ dec.priv = gen.priv

\* DecryptAES was called on a full-width ciphertext whose tag cannot verify.
TagFails ==
    /\ dres.called
    /\ last.called
    /\ Len(ctext) >= NonceSize
    /\ tamper # "none" \/ dres.pass # last.pass

(***************************************************************************)
(* C2.  DecryptAES on a ciphertext of at least nonce width whose           *)
(* integrity tag does not verify (the ciphertext was modified, or the      *)
(* passphrase is not the one used to encrypt) returns the one              *)
(* AuthenticationFailed failure in both cases; it returns no plaintext     *)
(* and does not panic.                                                     *)
(***************************************************************************)
C2_AuthFailureReturned ==
    TagFails =>
        /\ dres.panic = ""
        /\ dres.err \in AuthenticationFailed
        /\ dres.val = <<>>

(***************************************************************************)
(* C3.  DecryptAES on a ciphertext shorter than the nonce width (the       *)
(* empty one included), with any passphrase, returns InputTooShort; it     *)
(* does not slice past the end of the input and does not panic.            *)
(***************************************************************************)
C3_ShortInputReturned ==
    (dres.called /\ Len(ctext) < NonceSize) =>
        /\ dres.panic = ""
        /\ dres.err \in InputTooShort
        /\ dres.val = <<>>

(***************************************************************************)
(* C4.  For every plaintext and passphrase (the empty ones included)       *)
(* EncryptAES succeeds and returns nonce || sealed output, and DecryptAES  *)
(* of that output under the same passphrase splits off the same nonce and  *)
(* returns exactly the plaintext.                                          *)
(***************************************************************************)
C4_SymmetricRoundTrip ==
    /\ last.called =>
          /\ last.panic = ""
          /\ last.err = ""
          /\ Len(last.val) = NonceSize + Len(last.plain) + TagSize
          /\ SubSeq(last.val, 1, NonceSize) = last.rnd
    /\ (dres.called /\ last.called /\ tamper = "none" /\ dres.pass = last.pass) =>
          /\ dres.panic = ""
          /\ dres.err = ""
          /\ dres.val = last.plain

C4_Witness ==
    /\ dres.called
    /\ last.called
    /\ tamper = "none"
    /\ dres.pass = last.pass
    /\ last.pass # <<>>
    /\ last.plain # <<>>
    /\ dres.val = last.plain

\* The nonce a ciphertext carries in front.
NonceOf(call) == SubSeq(call.val, 1, NonceSize)

TwoCalls == kept.called /\ last.called

\* DecryptAES of a call's output under its passphrase gives its plaintext.
OpensTo(call) ==
    LET r == IF impl = "part_000" THEN DecryptAES(call.val, call.pass)
             ELSE DecryptAES_cryptogo(call.val, call.pass)
    IN r.panic = "" /\ r.err = "" /\ r.val = call.plain

====
